---- MODULE Spec2Model ----
(***************************************************************************)
(* NDC query generation from the 'ModelSelection' IR                       *)
(* (v3/crates/execute/src/plan/model_selection.rs).                        *)
(*                                                                         *)
(* Three specifications share the module's variables:                      *)
(*   SpecAgg  - ndc_aggregates / ndc_count_aggregate on bounded inputs     *)
(*   SpecOrd  - ndc_order_by / ndc_order_by_target on bounded inputs       *)
(*   Spec     - plan_query_execution / plan_query_node as a state machine: *)
(*              one compilation, run after run                             *)
(*   SpecSiblings - the same machine, two compilations interleaved         *)
(***************************************************************************)
EXTENDS Integers, Sequences, FiniteSets, TLC

VARIABLES
    agg_in,    \* the AggregateSelectionSet handed to ndc_aggregates
    agg_out,   \* Option: the IndexMap ndc_aggregates returned
    ord_in,    \* the order-by elements handed to ndc_order_by
    ord_out,   \* Option: the OrderBy ndc_order_by returned
    pc,        \* per compilation: where plan_query_execution stands
    ir,        \* per compilation: the root ModelSelection
    stack,     \* per compilation: the active plan_query_node calls, root first
    registry,  \* per compilation: collection_relationships (names of the map)
    counter,   \* per compilation: the MonotonicCounter behind join_id_counter
    locals,    \* per compilation: query, join_locations, arguments of plan_query_execution
    result,    \* per compilation: what plan_query_execution returned
    calls,     \* history: root-level delegate calls and returns, and every error
    added,     \* history: relationship names the delegates inserted in this run
    issued,    \* history: join ids get_next handed out in this run
    nodes      \* history: number of plan_query_node calls in this run

vars == <<agg_in, agg_out, ord_in, ord_out, pc, ir, stack, registry, counter,
          locals, result, calls, added, issued, nodes>>

pureVars == <<agg_in, agg_out, ord_in, ord_out>>

planVars == <<pc, ir, stack, registry, counter, locals, result, calls, added,
              issued, nodes>>

(***************************************************************************)
(* Bounds of the model.                                                    *)
(***************************************************************************)
\* longest column path of an aggregate selection
MaxColumnPath == 2

\* longest relationship path of an order-by target
MaxRelPath == 2

\* most elements of one order-by clause
MaxOrderBy == 2

\* most plan_query_node calls (root and nested) in one compilation
MaxNodes == 2

\* most join ids the field-selection planner issues in one compilation
MaxJoins == 2

Cols == {"a", "b"}

\* an aggregate selection set has at most one entry per name
AggFieldNames == {"f1", "f2"}

AggFns == {"sum", "max"}

RelNames == {"R1", "R2"}

(***************************************************************************)
(* Option<T>, and helpers on sequences.                                    *)
(***************************************************************************)
None == [some |-> FALSE]

Some(x) == [some |-> TRUE, val |-> x]

SeqMap(f(_), s) == [i \in 1..Len(s) |-> f(s[i])]

SeqsUpTo(S, n) == UNION {[1..k -> S] : k \in 0..n}

IsInjective(s) == \A i, j \in 1..Len(s) : s[i] = s[j] => i = j

(***************************************************************************)
(* ndc_models newtypes built with From<&str>: the string, wrapped.         *)
(***************************************************************************)
FieldName(s) == [field_name |-> s]

AggregateFunctionName(s) == [aggregate_function_name |-> s]

RelationshipName(s) == [relationship_name |-> s]

(***************************************************************************)
(* IndexMap: a sequence of key/value entries with distinct keys, in        *)
(* insertion order.  collect() inserts the pairs one by one; inserting a   *)
(* key that is present replaces its value in place.                        *)
(***************************************************************************)
IndexMapInsert(m, k, v) ==
    IF \E i \in 1..Len(m) : m[i].key = k
    THEN [i \in 1..Len(m) |-> IF m[i].key = k THEN [key |-> k, val |-> v] ELSE m[i]]
    ELSE Append(m, [key |-> k, val |-> v])

RECURSIVE IndexMapCollectFrom(_, _)
IndexMapCollectFrom(m, pairs) ==
    IF pairs = <<>> THEN m
    ELSE IndexMapCollectFrom(IndexMapInsert(m, Head(pairs).key, Head(pairs).val),
                             Tail(pairs))

IndexMapCollect(pairs) == IndexMapCollectFrom(<<>>, pairs)

(***************************************************************************)
(* ndc_count_aggregate (lines 102-121)                                     *)
(***************************************************************************)
\* Fault: the remaining path is wrapped in Some without the is_empty test.
ndc_count_aggregate_empty_path(column_path, distinct) ==
    IF column_path # <<>>
    THEN [tag |-> "ColumnCount",
          column |-> FieldName(Head(column_path)),
          field_path |-> Some(SeqMap(FieldName, Tail(column_path))),
          distinct |-> distinct]
    ELSE [tag |-> "StarCount"]

ndc_count_aggregate(column_path, distinct) ==
    IF column_path # <<>>
    THEN LET remaining_path == SeqMap(FieldName, Tail(column_path))
             nested_field_path == IF remaining_path = <<>> THEN None
                                  ELSE Some(remaining_path)
         IN  [tag |-> "ColumnCount",
              column |-> FieldName(Head(column_path)),
              field_path |-> nested_field_path,
              distinct |-> distinct]
    ELSE [tag |-> "StarCount"]

(***************************************************************************)
(* The closure of ndc_aggregates (lines 63-96): one entry of the map.      *)
(***************************************************************************)
\* Fault: the CountDistinct arm passes distinct = false.
ndc_aggregate_distinct_flag_lost(aggregate_selection) ==
    IF aggregate_selection.tag \in {"Count", "CountDistinct"}
    THEN ndc_count_aggregate(aggregate_selection.column_path, FALSE)
    ELSE [tag |-> "SingleColumn",
          column |-> FieldName(aggregate_selection.column_path.head),
          field_path |-> IF aggregate_selection.column_path.tail = <<>> THEN None
                         ELSE Some(SeqMap(FieldName, aggregate_selection.column_path.tail)),
          function |-> AggregateFunctionName(aggregate_selection.function_name)]

\* Fault: the AggregationFunction arm wraps the tail in Some without the
\* is_empty test.
ndc_aggregate_empty_field_path(aggregate_selection) ==
    IF aggregate_selection.tag = "Count"
    THEN ndc_count_aggregate(aggregate_selection.column_path, FALSE)
    ELSE IF aggregate_selection.tag = "CountDistinct"
    THEN ndc_count_aggregate(aggregate_selection.column_path, TRUE)
    ELSE [tag |-> "SingleColumn",
          column |-> FieldName(aggregate_selection.column_path.head),
          field_path |-> Some(SeqMap(FieldName, aggregate_selection.column_path.tail)),
          function |-> AggregateFunctionName(aggregate_selection.function_name)]

ndc_aggregate(aggregate_selection) ==
    CASE aggregate_selection.tag = "Count" ->
           ndc_count_aggregate(aggregate_selection.column_path, FALSE)
      [] aggregate_selection.tag = "CountDistinct" ->
           ndc_count_aggregate(aggregate_selection.column_path, TRUE)
      [] aggregate_selection.tag = "AggregationFunction" ->
           LET column == aggregate_selection.column_path.head
               field_path == aggregate_selection.column_path.tail
               nested_field_path == SeqMap(FieldName, field_path)
           IN  [tag |-> "SingleColumn",
                column |-> FieldName(column),
                field_path |-> IF nested_field_path = <<>> THEN None
                               ELSE Some(nested_field_path),
                function |-> AggregateFunctionName(aggregate_selection.function_name)]

(***************************************************************************)
(* ndc_aggregates (lines 57-98): map every entry, collect into an IndexMap.*)
(***************************************************************************)
\* Fault: the fields are iterated in reverse.
ndc_aggregates_reversed(aggregate_selection_set) ==
    LET fields == aggregate_selection_set.fields
        n == Len(fields)
    IN  IndexMapCollect([i \in 1..n |->
                           [key |-> FieldName(fields[n + 1 - i].key),
                            val |-> ndc_aggregate(fields[n + 1 - i].val)]])

ndc_aggregates(aggregate_selection_set) ==
    IndexMapCollect([i \in 1..Len(aggregate_selection_set.fields) |->
                       [key |-> FieldName(aggregate_selection_set.fields[i].key),
                        val |-> ndc_aggregate(aggregate_selection_set.fields[i].val)]])

(***************************************************************************)
(* ndc_order_by_target (lines 169-217) and ndc_order_by (lines 154-167).   *)
(***************************************************************************)
PathElement(path) ==
    [relationship |-> RelationshipName(path),
     arguments |-> <<>>,
     predicate |-> Some([tag |-> "And", expressions |-> <<>>])]

\* Fault: the hops are pushed leaf first.
ndc_order_by_target_reversed_path(target) ==
    LET n == Len(target.relationship_path)
    IN  [tag |-> "Column",
         name |-> FieldName(target.name),
         path |-> [i \in 1..n |-> PathElement(target.relationship_path[n + 1 - i])],
         field_path |-> None]

ndc_order_by_target(target) ==
    [tag |-> "Column",
     name |-> FieldName(target.name),
     path |-> SeqMap(PathElement, target.relationship_path),
     field_path |-> None]

OrderDirection(d) == IF d = "ModelAsc" THEN "Asc" ELSE "Desc"

ndc_order_by_element(element) ==
    [order_direction |-> OrderDirection(element.order_direction),
     target |-> ndc_order_by_target(element.target)]

ndc_order_by(order_by_elements) ==
    [elements |-> SeqMap(ndc_order_by_element, order_by_elements)]

(***************************************************************************)
(* Bounded inputs of the two translators.                                  *)
(***************************************************************************)
ColumnPaths == SeqsUpTo(Cols, MaxColumnPath)

NonEmptyColumnPaths ==
    {[head |-> p[1], tail |-> Tail(p)] : p \in ColumnPaths \ {<<>>}}

AggregateFieldSelections ==
    {[tag |-> "Count", column_path |-> p] : p \in ColumnPaths}
    \cup {[tag |-> "CountDistinct", column_path |-> p] : p \in ColumnPaths}
    \cup {[tag |-> "AggregationFunction", function_name |-> f, column_path |-> p] :
            f \in AggFns, p \in NonEmptyColumnPaths}

AggKeySeqs ==
    {ks \in SeqsUpTo(AggFieldNames, Cardinality(AggFieldNames)) : IsInjective(ks)}

AggregateSelectionSets ==
    UNION {{[fields |-> [i \in 1..Len(ks) |-> [key |-> ks[i], val |-> vs[i]]]] :
              vs \in [1..Len(ks) -> AggregateFieldSelections]} : ks \in AggKeySeqs}

OrderByTargets ==
    {[tag |-> "Column", name |-> n, relationship_path |-> p] :
        n \in Cols, p \in SeqsUpTo(RelNames, MaxRelPath)}

OrderByElements ==
    {[order_direction |-> d, target |-> t] :
        d \in {"ModelAsc", "ModelDesc"}, t \in OrderByTargets}

OrderByClauses == SeqsUpTo(OrderByElements, MaxOrderBy)

(***************************************************************************)
(* The translators as a state machine: Init draws the input, the action    *)
(* applies the function once.                                              *)
(***************************************************************************)
Compilations == {"q1", "q2"}

Errors == {"E1", "E2"}

NoResult == [kind |-> "none"]

NoLocals == [query |-> None, join_locations |-> <<>>, arguments |-> None]

PlanIdle ==
    /\ pc = [c \in Compilations |-> "idle"]
    /\ ir = [c \in Compilations |-> None]
    /\ stack = [c \in Compilations |-> <<>>]
    /\ registry = [c \in Compilations |-> {}]
    /\ counter = [c \in Compilations |-> 0]
    /\ locals = [c \in Compilations |-> NoLocals]
    /\ result = [c \in Compilations |-> NoResult]
    /\ calls = [c \in Compilations |-> <<>>]
    /\ added = [c \in Compilations |-> {}]
    /\ issued = [c \in Compilations |-> <<>>]
    /\ nodes = [c \in Compilations |-> 0]

(***************************************************************************)
(* ModelSelection IR nodes the compilations are run on.  The field         *)
(* selection, the filter clause and the arguments are opaque to this file: *)
(* only the planners read them.                                            *)
(***************************************************************************)
SampleOrderBy ==
    <<[order_direction |-> "ModelDesc",
       target |-> [tag |-> "Column", name |-> "a",
                   relationship_path |-> <<"R1", "R2">>]]>>

SampleAggregates ==
    [fields |-> <<[key |-> "f2", val |-> [tag |-> "Count", column_path |-> <<>>]],
                  [key |-> "f1", val |-> [tag |-> "AggregationFunction",
                                          function_name |-> "max",
                                          column_path |-> [head |-> "a",
                                                           tail |-> <<"b">>]]]>>]

IRNodes ==
    {[collection |-> "users", data_connector |-> "dc1", selection |-> Some("fields"),
      aggregate_selection |-> None, filter_clause |-> "age > 3",
      order_by |-> Some([order_by_elements |-> SampleOrderBy]),
      limit |-> Some(10), offset |-> None, arguments |-> "args"],
     [collection |-> "orders", data_connector |-> "dc2", selection |-> None,
      aggregate_selection |-> Some(SampleAggregates), filter_clause |-> "true",
      order_by |-> None,
      limit |-> None, offset |-> Some(5), arguments |-> "none"]}

(***************************************************************************)
(* History: an event of the log `calls`.  Calls and returns are logged     *)
(* for plan_query_execution (depth 0) and the root plan_query_node         *)
(* (depth 1); an error is logged at any depth.                             *)
(***************************************************************************)
Event(ev, d, depth, e) == [ev |-> ev, d |-> d, depth |-> depth, error |-> e]

Log(c, evs) == [calls EXCEPT ![c] = @ \o evs]

LogRoot(c, depth, evs) == IF depth <= 1 THEN Log(c, evs) ELSE calls

\* A delegate called and failing in one step.
LogFailed(c, d, depth, e) ==
    Log(c, (IF depth <= 1 THEN <<Event("call", d, depth, "-")>> ELSE <<>>)
           \o <<Event("err", d, depth, e)>>)

Depth(c) == Len(stack[c])

Top(c) == stack[c][Len(stack[c])]

SetTop(c, frame) == [stack EXCEPT ![c] = [@ EXCEPT ![Len(@)] = frame]]

(***************************************************************************)
(* A plan_query_node call (lines 20-26): its IR node and its two locals.   *)
(* `locations` is what the running field-selection planner has gathered.   *)
(***************************************************************************)
Frame(node) ==
    [ir |-> node, at |-> "entry", query_fields |-> None,
     join_locations |-> <<>>, locations |-> <<>>]

(***************************************************************************)
(* The caller (spec.md 3, Lifecycle): a compilation starts with a fresh    *)
(* Counter and calls plan_query_execution on a root IR node.               *)
(***************************************************************************)
MonotonicCounter_new == 0

get_next(n) == n + 1

Call(c) ==
    /\ pc[c] \in {"idle", "returned"}
    /\ \E node \in IRNodes : ir' = [ir EXCEPT ![c] = Some(node)]
    /\ pc' = [pc EXCEPT ![c] = "discover"]
    /\ counter' = [counter EXCEPT ![c] = MonotonicCounter_new]
    /\ stack' = [stack EXCEPT ![c] = <<>>]
    /\ locals' = [locals EXCEPT ![c] = NoLocals]
    /\ result' = [result EXCEPT ![c] = NoResult]
    /\ calls' = [calls EXCEPT ![c] = <<>>]
    /\ added' = [added EXCEPT ![c] = {}]
    /\ issued' = [issued EXCEPT ![c] = <<>>]
    /\ nodes' = [nodes EXCEPT ![c] = 0]
    /\ UNCHANGED <<registry, pureVars>>

(***************************************************************************)
(* `?` on a delegate's Err(e): plan_query_node and plan_query_execution    *)
(* return Err(e) at once; every active call is unwound.                    *)
(***************************************************************************)
\* A map that went out of scope, or was moved out of its variable.
Dropped == {}

Propagate(c, e) ==
    /\ pc' = [pc EXCEPT ![c] = "returned"]
    /\ stack' = [stack EXCEPT ![c] = <<>>]
    /\ locals' = [locals EXCEPT ![c] = NoLocals]
    /\ result' = [result EXCEPT ![c] = [kind |-> "Err", error |-> e]]
    /\ registry' = [registry EXCEPT ![c] = Dropped]
    /\ added' = [added EXCEPT ![c] = {}]
    /\ nodes' = [nodes EXCEPT ![c] = 0]


(***************************************************************************)
(* plan_query_execution, lines 134-135: a new map, then discovery.         *)
(***************************************************************************)
\* Fault: one map shared by every compilation in place of a new one.
BTreeMap_new_shared(c) == UNION {registry[d] : d \in Compilations}

BTreeMap_new(c) == {}

\* Fault: plan_query_node is called without discovery having run.
discovery_skipped(c, rels) ==
    /\ registry' = [registry EXCEPT ![c] = BTreeMap_new(c)]
    /\ added' = added
    /\ pc' = [pc EXCEPT ![c] = "node"]
    /\ stack' = [stack EXCEPT ![c] = <<Frame(ir[c].val)>>]
    /\ nodes' = [nodes EXCEPT ![c] = 1]
    /\ calls' = calls
    /\ UNCHANGED <<locals, result>>

collect_relationships_ok(c, rels) ==
    /\ registry' = [registry EXCEPT ![c] = BTreeMap_new(c) \cup rels]
    /\ added' = [added EXCEPT ![c] = @ \cup rels]
    /\ pc' = [pc EXCEPT ![c] = "node"]
    /\ stack' = [stack EXCEPT ![c] = <<Frame(ir[c].val)>>]
    /\ nodes' = [nodes EXCEPT ![c] = 1]
    /\ calls' = Log(c, <<Event("call", "discovery", 0, "-"),
                          Event("ok", "discovery", 0, "-")>>)
    /\ UNCHANGED <<locals, result>>

collect_relationships_err(c, rels, e) ==
    /\ Propagate(c, e)
    /\ calls' = LogFailed(c, "discovery", 0, e)

Discover(c) ==
    /\ pc[c] = "discover"
    /\ \E rels \in SUBSET RelNames :
         \/ collect_relationships_ok(c, rels)
         \/ \E e \in Errors : collect_relationships_err(c, rels, e)
    /\ UNCHANGED <<ir, counter, issued, pureVars>>

(***************************************************************************)
(* plan_query_node, lines 25-33: with a selection, plan_selection_set is   *)
(* called with the node's own join_id_counter and relationships.           *)
(***************************************************************************)
\* Fault: the planner is handed a new Counter in place of join_id_counter.
selection_counter_reset(c) == MonotonicCounter_new

selection_counter(c) == counter[c]

PlanQueryNodeEntry(c) ==
    /\ pc[c] = "node"
    /\ Top(c).at = "entry"
    /\ IF Top(c).ir.selection.some
       THEN /\ stack' = SetTop(c, [Top(c) EXCEPT !.at = "selection"])
            /\ counter' = [counter EXCEPT ![c] = selection_counter(c)]
            /\ calls' = LogRoot(c, Depth(c), <<Event("call", "selection", Depth(c), "-")>>)
       ELSE /\ stack' = SetTop(c, [Top(c) EXCEPT !.at = "filter"])
            /\ UNCHANGED <<counter, calls>>
    /\ UNCHANGED <<pc, ir, registry, locals, result, added, issued, nodes, pureVars>>

(***************************************************************************)
(* The field-selection planner (spec.md 4.1, 6), running for the top       *)
(* plan_query_node call.  It draws join ids from the Counter, inserts into *)
(* the Registry, and plans a nested node by calling plan_query_node with   *)
(* the same Registry and Counter.                                          *)
(***************************************************************************)
\* The compilation q1 may nest up to MaxNodes plan_query_node calls; its
\* sibling q2 compiles queries of a root node only.
NodeBudget(c) == IF c = "q1" THEN MaxNodes ELSE 1

SelectionIssueJoin(c) ==
    /\ pc[c] = "node"
    /\ Top(c).at = "selection"
    /\ Len(issued[c]) < MaxJoins
    /\ LET id == get_next(counter[c])
       IN  /\ counter' = [counter EXCEPT ![c] = id]
           /\ issued' = [issued EXCEPT ![c] = Append(@, id)]
           /\ stack' = SetTop(c, [Top(c) EXCEPT !.locations =
                                    Append(@, [join_id |-> id, depth |-> Depth(c)])])
    /\ UNCHANGED <<pc, ir, registry, locals, result, calls, added, nodes, pureVars>>

SelectionNested(c) ==
    /\ pc[c] = "node"
    /\ Top(c).at = "selection"
    /\ nodes[c] < NodeBudget(c)
    /\ \E node \in IRNodes, r \in RelNames :
         /\ registry' = [registry EXCEPT ![c] = @ \cup {r}]
         /\ added' = [added EXCEPT ![c] = @ \cup {r}]
         /\ stack' = [stack EXCEPT ![c] = Append(@, Frame(node))]
    /\ nodes' = [nodes EXCEPT ![c] = @ + 1]
    /\ UNCHANGED <<pc, ir, counter, locals, result, calls, issued, pureVars>>

(***************************************************************************)
(* plan_query_node, lines 28-36: what plan_selection_set returns.          *)
(***************************************************************************)
plan_selection_set_ok(c) ==
    /\ stack' = SetTop(c, [Top(c) EXCEPT !.at = "filter",
                                         !.query_fields = Some(Top(c).ir.selection.val),
                                         !.join_locations = Top(c).locations])
    /\ calls' = LogRoot(c, Depth(c), <<Event("ok", "selection", Depth(c), "-")>>)
    /\ UNCHANGED <<pc, locals, result, registry, added, nodes>>

plan_selection_set_err(c, e) ==
    /\ Propagate(c, e)
    /\ calls' = Log(c, <<Event("err", "selection", Depth(c), e)>>)

SelectionReturn(c) ==
    /\ pc[c] = "node"
    /\ Top(c).at = "selection"
    /\ \/ plan_selection_set_ok(c)
       \/ \E e \in Errors : plan_selection_set_err(c, e)
    /\ UNCHANGED <<ir, counter, issued, pureVars>>

(***************************************************************************)
(* plan_query_node, lines 38-53: aggregates, filter, the QueryNode.        *)
(***************************************************************************)
OptionMap(f(_), o) == IF o.some THEN Some(f(o.val)) ELSE None

OrderByOf(x) == ndc_order_by(x.order_by_elements)

\* The filter planner's predicate (spec.md 6): opaque; absent for no filter.
Predicate(filter_clause) ==
    IF filter_clause = "true" THEN None ELSE Some([expression |-> filter_clause])

QueryNode(frame, predicate) ==
    [limit |-> frame.ir.limit,
     offset |-> frame.ir.offset,
     order_by |-> OptionMap(OrderByOf, frame.ir.order_by),
     predicate |-> predicate,
     aggregates |-> OptionMap(ndc_aggregates, frame.ir.aggregate_selection),
     fields |-> frame.query_fields,
     groups |-> None]

\* Ok((query_node, join_locations)) goes to the caller of this plan_query_node:
\* plan_query_execution (line 137), or the field-selection planner of the
\* enclosing node, which puts the nested placeholders into its own tree.
ReturnNode(c, query_node, join_locations) ==
    IF Depth(c) = 1
    THEN /\ pc' = [pc EXCEPT ![c] = "arguments"]
         /\ stack' = [stack EXCEPT ![c] = <<>>]
         /\ locals' = [locals EXCEPT ![c] = [@ EXCEPT !.query = Some(query_node),
                                                     !.join_locations = join_locations]]
    ELSE /\ pc' = pc
         /\ locals' = locals
         /\ stack' = [stack EXCEPT ![c] =
                        [i \in 1..(Len(@) - 1) |->
                           IF i = Len(@) - 1
                           THEN [@[i] EXCEPT !.locations = @ \o join_locations]
                           ELSE @[i]]]

plan_filter_expression_ok(c, rels) ==
    /\ registry' = [registry EXCEPT ![c] = @ \cup rels]
    /\ added' = [added EXCEPT ![c] = @ \cup rels]
    /\ ReturnNode(c, QueryNode(Top(c), Predicate(Top(c).ir.filter_clause)),
                  Top(c).join_locations)
    /\ calls' = LogRoot(c, Depth(c), <<Event("call", "filter", Depth(c), "-"),
                                       Event("ok", "filter", Depth(c), "-")>>)
    /\ UNCHANGED <<result, nodes>>

\* Fault: the filter planner's error is dropped and the node built without a
\* predicate.
plan_filter_expression_err_ignored(c, rels, e) ==
    /\ registry' = [registry EXCEPT ![c] = @ \cup rels]
    /\ added' = [added EXCEPT ![c] = @ \cup rels]
    /\ ReturnNode(c, QueryNode(Top(c), None), Top(c).join_locations)
    /\ calls' = LogFailed(c, "filter", Depth(c), e)
    /\ UNCHANGED <<result, nodes>>

plan_filter_expression_err(c, rels, e) ==
    /\ Propagate(c, e)
    /\ calls' = LogFailed(c, "filter", Depth(c), e)

PlanQueryNodeFilter(c) ==
    /\ pc[c] = "node"
    /\ Top(c).at = "filter"
    /\ \E rels \in SUBSET RelNames :
         \/ plan_filter_expression_ok(c, rels)
         \/ \E e \in Errors : plan_filter_expression_err(c, rels, e)
    /\ UNCHANGED <<ir, counter, issued, pureVars>>

(***************************************************************************)
(* plan_query_execution, lines 142-146: the argument planner, on the same  *)
(* map.                                                                    *)
(***************************************************************************)
\* Fault: the argument planner is handed a new map, which becomes the plan's.
arguments_relationships_new(c) == {}

arguments_relationships(c) == registry[c]

plan_ndc_arguments_ok(c, rels) ==
    /\ registry' = [registry EXCEPT ![c] = arguments_relationships(c) \cup rels]
    /\ added' = [added EXCEPT ![c] = @ \cup rels]
    /\ locals' = [locals EXCEPT ![c] = [@ EXCEPT !.arguments =
                                          Some([planned |-> ir[c].val.arguments])]]
    /\ pc' = [pc EXCEPT ![c] = "assemble"]
    /\ calls' = Log(c, <<Event("call", "arguments", 0, "-"),
                          Event("ok", "arguments", 0, "-")>>)
    /\ UNCHANGED <<stack, result, nodes>>

plan_ndc_arguments_err(c, rels, e) ==
    /\ Propagate(c, e)
    /\ calls' = LogFailed(c, "arguments", 0, e)

PlanArguments(c) ==
    /\ pc[c] = "arguments"
    /\ \E rels \in SUBSET RelNames :
         \/ plan_ndc_arguments_ok(c, rels)
         \/ \E e \in Errors : plan_ndc_arguments_err(c, rels, e)
    /\ UNCHANGED <<ir, counter, issued, pureVars>>

(***************************************************************************)
(* plan_query_execution, lines 139-151: the QueryExecutionPlan, returned   *)
(* with the join locations of the root node.                               *)
(***************************************************************************)
QueryExecutionPlan(c) ==
    [query_node |-> locals[c].query.val,
     collection |-> ir[c].val.collection,
     arguments |-> locals[c].arguments.val,
     collection_relationships |-> registry[c],
     variables |-> None,
     data_connector |-> ir[c].val.data_connector]

Assemble(c) ==
    /\ pc[c] = "assemble"
    /\ result' = [result EXCEPT ![c] = [kind |-> "Ok",
                                        plan |-> QueryExecutionPlan(c),
                                        join_locations |-> locals[c].join_locations]]
    /\ pc' = [pc EXCEPT ![c] = "returned"]
    /\ locals' = [locals EXCEPT ![c] = NoLocals]
    /\ registry' = [registry EXCEPT ![c] = Dropped]
    /\ calls' = Log(c, <<Event("call", "assemble", 0, "-")>>)
    /\ nodes' = [nodes EXCEPT ![c] = 0]
    /\ UNCHANGED <<ir, stack, counter, added, issued, pureVars>>

Init ==
    /\ agg_in = [fields |-> <<>>]
    /\ agg_out = None
    /\ ord_in = <<>>
    /\ ord_out = None
    /\ PlanIdle

Step(c) ==
    \/ Call(c)
    \/ Discover(c)
    \/ PlanQueryNodeEntry(c)
    \/ SelectionIssueJoin(c)
    \/ SelectionNested(c)
    \/ SelectionReturn(c)
    \/ PlanQueryNodeFilter(c)
    \/ PlanArguments(c)
    \/ Assemble(c)

\* One compilation at a time: q1 run after run.
Next == Step("q1")

Spec == Init /\ [][Next]_vars

\* Sibling compilations, interleaved step by step.
NextSiblings == \E c \in Compilations : Step(c)

SpecSiblings == Init /\ [][NextSiblings]_vars

InitAgg ==
    /\ agg_in \in AggregateSelectionSets
    /\ agg_out = None
    /\ ord_in = <<>>
    /\ ord_out = None
    /\ PlanIdle

TranslateAggregates ==
    /\ agg_out = None
    /\ agg_out' = Some(ndc_aggregates(agg_in))
    /\ UNCHANGED <<agg_in, ord_in, ord_out, planVars>>

SpecAgg == InitAgg /\ [][TranslateAggregates]_vars

InitOrd ==
    /\ ord_in \in OrderByClauses
    /\ ord_out = None
    /\ agg_in = [fields |-> <<>>]
    /\ agg_out = None
    /\ PlanIdle

TranslateOrderBy ==
    /\ ord_out = None
    /\ ord_out' = Some(ndc_order_by(ord_in))
    /\ UNCHANGED <<ord_in, agg_in, agg_out, planVars>>

SpecOrd == InitOrd /\ [][TranslateOrderBy]_vars

(***************************************************************************)
(* Helpers of the properties.                                              *)
(***************************************************************************)
Keys(m) == [i \in 1..Len(m) |-> m[i].key]

IsPrefix(s, t) == Len(s) <= Len(t) /\ \A i \in 1..Len(s) : s[i] = t[i]

Last(s) == s[Len(s)]

StrictlyIncreasing(s) == \A i, j \in 1..Len(s) : i < j => s[i] < s[j]

JoinIds(locs) == [i \in 1..Len(locs) |-> locs[i].join_id]

ErrIndexes(c) == {i \in 1..Len(calls[c]) : calls[c][i].ev = "err"}

\* The log without the error that ended the run.
Succeeded(c) ==
    IF calls[c] # <<>> /\ Last(calls[c]).ev = "err"
    THEN SubSeq(calls[c], 1, Len(calls[c]) - 1)
    ELSE calls[c]

\* The root-level log of a run in which every delegate succeeds.
ExpectedLog(node) ==
    <<Event("call", "discovery", 0, "-"), Event("ok", "discovery", 0, "-")>>
    \o (IF node.selection.some
        THEN <<Event("call", "selection", 1, "-"), Event("ok", "selection", 1, "-")>>
        ELSE <<>>)
    \o <<Event("call", "filter", 1, "-"), Event("ok", "filter", 1, "-"),
         Event("call", "arguments", 0, "-"), Event("ok", "arguments", 0, "-"),
         Event("call", "assemble", 0, "-")>>

\* Every placeholder the active plan_query_node calls hold, root first.
RECURSIVE LiveLocations(_, _)
LiveLocations(c, n) ==
    IF n = 0 THEN <<>> ELSE LiveLocations(c, n - 1) \o stack[c][n].locations

\* The column path of an aggregate selection, as one sequence c0, c1, ..., cn.
FullPath(sel) ==
    IF sel.tag = "AggregationFunction"
    THEN <<sel.column_path.head>> \o sel.column_path.tail
    ELSE sel.column_path

\* field_path is c1..cn in order, and absent when there is no c1.
NestedPathIs(field_path, path) ==
    IF Len(path) = 1
    THEN field_path = None
    ELSE /\ field_path.some
         /\ Len(field_path.val) = Len(path) - 1
         /\ \A k \in 1..(Len(path) - 1) : field_path.val[k] = FieldName(path[k + 1])

(***************************************************************************)
(* C1: a run of plan_query_execution calls its delegates in the order      *)
(* discovery, field-selection planner (only with a selection), filter      *)
(* planner, argument planner, assembly, each at most once and each after   *)
(* the one before it returned Ok; discovery starts on an empty Registry    *)
(* and has returned before any node is built.                              *)
(***************************************************************************)
C1_StrictOrder ==
    \A c \in Compilations :
        ir[c].some =>
            /\ IsPrefix(Succeeded(c), ExpectedLog(ir[c].val))
            /\ pc[c] = "discover" => calls[c] = <<>>
            /\ stack[c] # <<>> => pc[c] = "node"
            /\ (stack[c] # <<>> \/ nodes[c] > 0) =>
                   /\ Len(calls[c]) >= 2
                   /\ calls[c][2] = Event("ok", "discovery", 0, "-")
            /\ (pc[c] = "node" /\ Len(calls[c]) = 2 /\ Depth(c) = 1
                  /\ Top(c).at = "entry") => registry[c] = added[c]
            /\ pc[c] = "arguments" => Last(calls[c]) = Event("ok", "filter", 1, "-")
            /\ pc[c] = "assemble" => Last(calls[c]) = Event("ok", "arguments", 0, "-")
            /\ result[c].kind = "Ok" => calls[c] = ExpectedLog(ir[c].val)

C1_Witness ==
    \E c \in Compilations :
        /\ result[c].kind = "Ok"
        /\ ir[c].val.selection.some
        /\ Len(calls[c]) = 9
        /\ result[c].join_locations # <<>>

(***************************************************************************)
(* C2: when a delegate fails, nothing is called after it, the run returns  *)
(* that delegate's error and nothing else: no query node, no plan, no join *)
(* locations.                                                              *)
(***************************************************************************)
C2_FailFast ==
    \A c \in Compilations :
        /\ ErrIndexes(c) # {} =>
               /\ ErrIndexes(c) = {Len(calls[c])}
               /\ pc[c] = "returned"
               /\ result[c] = [kind |-> "Err", error |-> Last(calls[c]).error]
               /\ stack[c] = <<>>
               /\ locals[c] = NoLocals
        /\ result[c].kind = "Err" => ErrIndexes(c) # {}
        /\ result[c].kind = "Ok" => ErrIndexes(c) = {}

C2_Witness ==
    \E c \in Compilations :
        /\ result[c] = [kind |-> "Err", error |-> "E2"]
        /\ Last(calls[c]).d = "filter"
        /\ Last(calls[c]).depth = 2
        /\ counter[c] > 0

(***************************************************************************)
(* C3: the join ids of one compilation are strictly increasing in the      *)
(* order they are issued, the Counter never falls behind an id it issued,  *)
(* and no two placeholders held by the active calls, or returned, carry    *)
(* the same id.                                                            *)
(***************************************************************************)
C3_JoinIdsIncreasing ==
    \A c \in Compilations :
        /\ StrictlyIncreasing(issued[c])
        /\ \A i \in 1..Len(issued[c]) : issued[c][i] <= counter[c]
        /\ IsInjective(JoinIds(LiveLocations(c, Len(stack[c]))))
        /\ IsInjective(JoinIds(locals[c].join_locations))
        /\ result[c].kind = "Ok" =>
               /\ IsInjective(JoinIds(result[c].join_locations))
               /\ \A i \in 1..Len(result[c].join_locations) :
                      \E k \in 1..Len(issued[c]) :
                          issued[c][k] = result[c].join_locations[i].join_id

C3_Witness ==
    \E c \in Compilations :
        /\ result[c].kind = "Ok"
        /\ \E i, j \in 1..Len(result[c].join_locations) :
               /\ result[c].join_locations[i].depth = 1
               /\ result[c].join_locations[j].depth = 2

(***************************************************************************)
(* C4: whatever a delegate inserted into the Registry stays in it for the  *)
(* rest of the compilation, and the plan's collection_relationships holds  *)
(* every name inserted by discovery, the planners of the nodes and the     *)
(* argument planner.                                                       *)
(***************************************************************************)
C4_FullRegistry ==
    \A c \in Compilations :
        /\ pc[c] \in {"node", "arguments", "assemble"} => added[c] \subseteq registry[c]
        /\ result[c].kind = "Ok" =>
               added[c] \subseteq result[c].plan.collection_relationships

C4_Witness ==
    \E c \in Compilations :
        /\ result[c].kind = "Ok"
        /\ result[c].plan.collection_relationships = RelNames
        /\ result[c].plan.query_node.fields.some

(***************************************************************************)
(* C5: a compilation sees only its own Registry and Counter.  Its map      *)
(* holds no name but those its own delegates inserted since the map was    *)
(* made, so does the plan it returns, and its join ids count up from the   *)
(* fresh Counter whatever its siblings did, ran into or returned.          *)
(***************************************************************************)
C5_Isolation ==
    \A c \in Compilations :
        /\ registry[c] \subseteq added[c]
        /\ result[c].kind = "Ok" =>
               result[c].plan.collection_relationships \subseteq added[c]
        /\ issued[c] = [i \in 1..Len(issued[c]) |-> MonotonicCounter_new + i]
        /\ counter[c] = MonotonicCounter_new + Len(issued[c])

C5_Witness ==
    \E c, d \in Compilations :
        /\ c # d
        /\ result[c].kind = "Err"
        /\ counter[c] > 0
        /\ pc[d] = "assemble"
        /\ registry[d] = {"R1"}
        /\ counter[d] > counter[c]

(***************************************************************************)
(* C6: the aggregate map of ndc_aggregates has the keys of the selection,  *)
(* one entry per entry, in the same order.                                 *)
(***************************************************************************)
C6_SameKeysSameOrder ==
    agg_out.some =>
        /\ Len(agg_out.val) = Len(agg_in.fields)
        /\ \A i \in 1..Len(agg_in.fields) :
               agg_out.val[i].key = FieldName(agg_in.fields[i].key)

C6_Witness ==
    /\ agg_out.some
    /\ Keys(agg_in.fields) = <<"f2", "f1">>
    /\ Len(agg_out.val) = 2

(***************************************************************************)
(* C7, as claimed: every CountDistinct entry, whatever its column path,    *)
(* becomes a column count with distinct = true.                            *)
(***************************************************************************)
C7_Claimed ==
    agg_out.some =>
        \A i \in 1..Len(agg_in.fields) :
            agg_in.fields[i].val.tag = "CountDistinct" =>
                /\ i <= Len(agg_out.val)
                /\ agg_out.val[i].val.tag = "ColumnCount"
                /\ agg_out.val[i].val.distinct = TRUE

(***************************************************************************)
(* C7, amended: a CountDistinct entry with a column path c0..cn becomes a  *)
(* column count on c0 with nested field path c1..cn (absent without c1)    *)
(* and distinct = true; with an empty column path it becomes a star count. *)
(***************************************************************************)
C7_CountDistinct ==
    agg_out.some =>
        \A i \in 1..Len(agg_in.fields) :
            LET sel == agg_in.fields[i].val
                out == agg_out.val[i].val
            IN  sel.tag = "CountDistinct" =>
                    IF sel.column_path = <<>>
                    THEN out = [tag |-> "StarCount"]
                    ELSE /\ out.tag = "ColumnCount"
                         /\ out.column = FieldName(sel.column_path[1])
                         /\ NestedPathIs(out.field_path, sel.column_path)
                         /\ out.distinct = TRUE

C7_Witness ==
    /\ agg_out.some
    /\ \E i \in 1..Len(agg_in.fields) :
           /\ agg_in.fields[i].val = [tag |-> "CountDistinct", column_path |-> <<"a", "b">>]
           /\ agg_out.val[i].val.distinct = TRUE
    /\ \E i \in 1..Len(agg_in.fields) :
           agg_in.fields[i].val = [tag |-> "CountDistinct", column_path |-> <<>>]

(***************************************************************************)
(* C8: a Count entry with an empty column path becomes a star count with   *)
(* no column; with a column path c0..cn it becomes a column count on c0    *)
(* with nested field path c1..cn (absent without c1) and distinct = false. *)
(***************************************************************************)
C8_Count ==
    agg_out.some =>
        \A i \in 1..Len(agg_in.fields) :
            LET sel == agg_in.fields[i].val
                out == agg_out.val[i].val
            IN  sel.tag = "Count" =>
                    IF sel.column_path = <<>>
                    THEN out = [tag |-> "StarCount"]
                    ELSE /\ out.tag = "ColumnCount"
                         /\ out.column = FieldName(sel.column_path[1])
                         /\ NestedPathIs(out.field_path, sel.column_path)
                         /\ out.distinct = FALSE

C8_Witness ==
    /\ agg_out.some
    /\ Len(agg_in.fields) = 2
    /\ agg_in.fields[1].val = [tag |-> "Count", column_path |-> <<>>]
    /\ agg_in.fields[2].val = [tag |-> "Count", column_path |-> <<"b">>]
    /\ agg_out.val[2].val.field_path = None

(***************************************************************************)
(* C9: an AggregationFunction(fn, c0..cn) entry becomes a single-column    *)
(* aggregate on c0 with function fn and nested field path c1..cn, absent   *)
(* when the path is c0 alone.                                              *)
(***************************************************************************)
C9_AggregationFunction ==
    agg_out.some =>
        \A i \in 1..Len(agg_in.fields) :
            LET sel == agg_in.fields[i].val
                out == agg_out.val[i].val
            IN  sel.tag = "AggregationFunction" =>
                    /\ out.tag = "SingleColumn"
                    /\ out.column = FieldName(FullPath(sel)[1])
                    /\ out.function = AggregateFunctionName(sel.function_name)
                    /\ NestedPathIs(out.field_path, FullPath(sel))
                    /\ DOMAIN out = {"tag", "column", "field_path", "function"}

C9_Witness ==
    /\ agg_out.some
    /\ \E i, j \in 1..Len(agg_in.fields) :
           /\ agg_in.fields[i].val = [tag |-> "AggregationFunction", function_name |-> "sum",
                                      column_path |-> [head |-> "a", tail |-> <<>>]]
           /\ agg_out.val[i].val.field_path = None
           /\ agg_in.fields[j].val = [tag |-> "AggregationFunction", function_name |-> "max",
                                      column_path |-> [head |-> "b", tail |-> <<"a">>]]
           /\ agg_out.val[j].val.field_path = Some(<<FieldName("a")>>)

(***************************************************************************)
(* C10: ndc_order_by keeps the number and order of the elements, the       *)
(* direction and the column name of each; the path has one hop per         *)
(* relationship of the relationship path, in its order, every hop with no  *)
(* arguments and an And of no expressions; the nested field path is absent.*)
(***************************************************************************)
C10_OrderBy ==
    ord_out.some =>
        /\ Len(ord_out.val.elements) = Len(ord_in)
        /\ \A i \in 1..Len(ord_in) :
               LET el == ord_in[i]
                   out == ord_out.val.elements[i]
               IN  /\ el.order_direction = "ModelAsc" => out.order_direction = "Asc"
                   /\ el.order_direction = "ModelDesc" => out.order_direction = "Desc"
                   /\ out.target.tag = "Column"
                   /\ out.target.name = FieldName(el.target.name)
                   /\ out.target.field_path = None
                   /\ Len(out.target.path) = Len(el.target.relationship_path)
                   /\ \A k \in 1..Len(el.target.relationship_path) :
                          /\ out.target.path[k].relationship =
                                 RelationshipName(el.target.relationship_path[k])
                          /\ out.target.path[k].arguments = <<>>
                          /\ out.target.path[k].predicate =
                                 Some([tag |-> "And", expressions |-> <<>>])

C10_Witness ==
    /\ ord_out.some
    /\ Len(ord_in) = 2
    /\ ord_in[1].order_direction = "ModelDesc"
    /\ ord_in[1].target.relationship_path = <<"R1", "R2">>
    /\ ord_in[2].order_direction = "ModelAsc"
    /\ ord_in[2].target.relationship_path = <<>>
    /\ Len(ord_out.val.elements[1].target.path) = 2

====
